---------------------------- MODULE Spec2Model ----------------------------
(***************************************************************************)
(* A2PCreateTechBook (a2p_techbook.py): the command that walks an assembly *)
(* document and the documents it imports, collects their TechDraw pages,   *)
(* stamps the editable fields of every page and merges the exported pages  *)
(* into one PDF.                                                           *)
(*                                                                         *)
(* A run of Activated is a state machine: the answers of the user, the     *)
(* files on disk and the #TECHINFO# spreadsheet are fixed by Init, and the *)
(* actions are the steps of Activated and of the methods it calls.  The    *)
(* recursion of _createTechDrawDocumentList is an explicit call stack.     *)
(***************************************************************************)
EXTENDS Integers, Sequences, FiniteSets, TLC

(***************************************************************************)
(* Bounds of the model.                                                    *)
(***************************************************************************)
\* Total number of imported objects (references) over all the files.
MaxRefs == 3
\* Number of TechDraw pages of a document.
MaxPages == 2
\* Number of rows of the #TECHINFO# spreadsheet.
MaxRows == 2
\* Depth of the call stack at which the interpreter raises RecursionError.
RecursionLimit == 5

(***************************************************************************)
(* Values: a spreadsheet cell, a dictionary value and an editable text are *)
(* Python objects, here an int or a str.                                   *)
(***************************************************************************)
PyInt(n) == [t |-> "int", n |-> n]
PyStr(s) == [t |-> "str", s |-> s]
\* The content of an empty cell: sheet.get raises ValueError for it.
EmptyCell == [t |-> "empty"]

EmptyDict == [k \in {} |-> PyInt(0)]
\* d[k] = v
Put(d, k, v) == [x \in (DOMAIN d) \cup {k} |-> IF x = k THEN v ELSE d[x]]

\* x in list
InList(x, list) == \E i \in 1..Len(list) : list[i] = x

(***************************************************************************)
(* Files.  A document is identified by the full path of its file.          *)
(***************************************************************************)
ProjectDir == "/p"
FileNames == {"A.FCStd", "B.FCStd", "C.FCStd"}
\* str(Path(file_path) / Path(file_name))
PathJoin(file_path, file_name) == file_path \o "/" \o file_name

RECURSIVE LastSlash(_, _)
LastSlash(s, i) ==
    IF i = 0 THEN 0
    ELSE IF SubSeq(s, i, i) = "/" THEN i
    ELSE LastSlash(s, i - 1)
\* os.path.split(p): (head, tail), tail being what follows the last slash.
PathSplit(p) ==
    LET i == LastSlash(p, Len(p))
    IN  IF i = 0 THEN <<"", p>>
        ELSE <<SubSeq(p, 1, i - 1), SubSeq(p, i + 1, Len(p))>>

Files == {PathJoin(ProjectDir, n) : n \in FileNames}
\* doc.FileName of the active document.
MasterFile == PathJoin(ProjectDir, "A.FCStd")

\* An imported object of an assembly: its source file and whether it was
\* imported as a sub-assembly.
A2pObject == [src : Files, sub : BOOLEAN]

(***************************************************************************)
(* The state.  The first group is the environment of a run, fixed by Init. *)
(***************************************************************************)
VARIABLES
    activeDoc,        \* FreeCAD.activeDocument() is a document
    recursive,        \* the answer to "iterate recursively ...?" is Yes
    dialog,           \* the file selected in the save dialog, or NoFile
    a2pObjects,       \* file -> the objects imported by that file, in order
    missing,          \* the files FreeCAD.openDocument cannot open
    drawPages,        \* file -> number of TechDraw::DrawPage objects
    sheet,            \* the #TECHINFO# spreadsheet of the master document
    pc,               \* where Activated is
    standard_fields,  \* dict of Activated
    editable_fields,  \* dict of Activated
    filename,         \* export file name returned by _getUserParameters
    treated,          \* list of documents already treated
    stack,            \* call stack of _createTechDrawDocumentList
    doc_list,         \* list of (document, page) returned by the walk
    opened,           \* files FreeCAD.openDocument has opened
    printed,          \* "could not be opened" lines printed, in order
    texts,            \* page -> Template.EditableTexts
    page_edited,      \* _computeTechDraw: sheet number of the next page
    idx,              \* position in doc_list of the running loop
    temp_files,       \* temp file name -> what was exported into it
    pdf_merger,       \* the pages appended to the PdfFileMerger, in order
    output,           \* the written file: [name, pages]
    messages          \* titles of the message boxes shown, in order

env == <<activeDoc, recursive, dialog, a2pObjects, missing, drawPages, sheet>>
walk == <<treated, stack, doc_list, opened, printed>>
book == <<texts, page_edited, idx, temp_files, pdf_merger, output>>
vars == <<env, pc, standard_fields, editable_fields, filename, walk, book,
          messages>>

NoFile == "<none>"
\* No file has been written.
NoOutput == [name |-> NoFile, pages |-> <<>>]

(***************************************************************************)
(* The host application, as far as the command uses it.                    *)
(***************************************************************************)
\* FreeCAD.openDocument(full_filename) raises OSError.
OpenRaisesOSError(full_filename) == full_filename \in missing

\* doc.findObjects("TechDraw::DrawPage"): the pages of a document, in order.
FindDrawPages(doc) == [i \in 1..drawPages[doc] |-> <<doc, i>>]

\* FCdocumentReader: openDocument(full_filename), then getA2pObjects().  A
\* file that cannot be read has no objects.
ReaderGetA2pObjects(full_filename) ==
    IF full_filename \in missing \/ full_filename \notin Files THEN <<>>
    ELSE a2pObjects[full_filename]

\* a2plib.findSourceFileInProject(ob.getA2pSource(), file_path): the source
\* files are stored by their absolute path.
FindSourceFileInProject(source, file_path) == source

(***************************************************************************)
(* _getDocumentTechDraw(full_filename, treated).  The result holds the     *)
(* returned list and the effects: the new 'treated', whether the document  *)
(* was opened and whether "could not be opened" was printed.               *)
(***************************************************************************)
\* Mutant: the document is not looked up in 'treated'.
GetDocumentTechDraw_NoTreatedCheck(full_filename, treated_) ==
    IF OpenRaisesOSError(full_filename)
    THEN [ret |-> <<>>, treated |-> treated_, opened |-> {},
          printed |-> <<full_filename>>]
    ELSE [ret |-> FindDrawPages(full_filename),
          treated |-> Append(treated_, full_filename),
          opened |-> {full_filename}, printed |-> <<>>]

GetDocumentTechDraw(full_filename, treated_) ==
    IF OpenRaisesOSError(full_filename)
    THEN [ret |-> <<>>, treated |-> treated_, opened |-> {},
          printed |-> <<full_filename>>]
    ELSE LET doc == full_filename
         IN  IF InList(doc, treated_)
             THEN [ret |-> <<>>, treated |-> treated_,
                   opened |-> {full_filename}, printed |-> <<>>]
             ELSE [ret |-> FindDrawPages(doc),
                   treated |-> Append(treated_, doc),
                   opened |-> {full_filename}, printed |-> <<>>]

(***************************************************************************)
(* _getBookParameters(doc, standard_fields, editable_fields).              *)
(***************************************************************************)
STANDARDS_FIELDS_NAME ==
    {"Stating_Page", "Nb_Page_After", "Date_Field", "Scale_Field",
     "Sheet_Field"}

\* The default standard values, set by five assignments.
SetDefaultStandardFields(d) ==
    Put(Put(Put(Put(Put(d,
        "Stating_Page", PyInt(1)),
        "Nb_Page_After", PyInt(0)),
        "Date_Field", PyStr("FC-DATE")),
        "Scale_Field", PyStr("FC-SC")),
        "Sheet_Field", PyStr("FC-SH"))

\* sheet[0].get('A{idx}') / get('B{idx}'): the content of a cell; an empty
\* cell (and any cell below the last row) makes get raise ValueError.
SheetGet(rows, col, i) ==
    IF i <= Len(rows) THEN rows[i][col] ELSE EmptyCell

\* The while loop: rows are read from idx on until a get raises ValueError.
RECURSIVE ReadTempDict(_, _, _)
ReadTempDict(rows, i, temp_dict) ==
    IF SheetGet(rows, "a", i) = EmptyCell THEN temp_dict
    ELSE IF SheetGet(rows, "b", i) = EmptyCell THEN temp_dict
    ELSE ReadTempDict(rows, i + 1,
                      Put(temp_dict, SheetGet(rows, "a", i).s,
                          SheetGet(rows, "b", i)))

DigitChars == <<"0", "1", "2", "3", "4", "5", "6", "7", "8", "9">>
IsDigit(c) == \E d \in 1..10 : DigitChars[d] = c
DigitValue(c) == (CHOOSE d \in 1..10 : DigitChars[d] = c) - 1

RECURSIVE ParseDecimal(_, _, _)
ParseDecimal(s, i, acc) ==
    IF i > Len(s) THEN acc
    ELSE ParseDecimal(s, i + 1, 10 * acc + DigitValue(SubSeq(s, i, i)))

\* int(v): [ok, n]; ok is FALSE where int raises ValueError.
IntOf(v) ==
    IF v.t = "int" THEN [ok |-> TRUE, n |-> v.n]
    ELSE IF Len(v.s) > 0 /\ \A i \in 1..Len(v.s) : IsDigit(SubSeq(v.s, i, i))
    THEN [ok |-> TRUE, n |-> ParseDecimal(v.s, 1, 0)]
    ELSE [ok |-> FALSE, n |-> 0]

\* One turn of "for k, v in temp_dict.items()".
SetRetVal(k, v, std, edit) ==
    IF k \in STANDARDS_FIELDS_NAME
    THEN LET v2 == IF k = "Stating_Page" \/ k = "Nb_Page_After"
                   THEN IF IntOf(v).ok THEN PyInt(IntOf(v).n) ELSE std[k]
                   ELSE v
         IN  [std |-> Put(std, k, v2), edit |-> edit]
    ELSE [std |-> std, edit |-> Put(edit, k, v)]

RECURSIVE SetRetVals(_, _, _, _)
SetRetVals(temp_dict, keys, std, edit) ==
    IF keys = {} THEN [std |-> std, edit |-> edit]
    ELSE LET k == CHOOSE x \in keys : TRUE
             r == SetRetVal(k, temp_dict[k], std, edit)
         IN  SetRetVals(temp_dict, keys \ {k}, r.std, r.edit)

\* Mutant: the dictionary is not emptied.
Clear_Nothing(d) == d

\* dict.clear()
Clear(d) == EmptyDict

\* The two dictionaries after the call, from the spreadsheet and from what
\* the dictionaries held before it.
GetBookParameters(sheet_, std_before, edit_before) ==
    LET std0 == SetDefaultStandardFields(Clear(std_before))
        edit0 == Clear(edit_before)
    IN  IF ~sheet_.found THEN [std |-> std0, edit |-> edit0]
        ELSE LET temp_dict == ReadTempDict(sheet_.rows, 1, EmptyDict)
             IN  SetRetVals(temp_dict, DOMAIN temp_dict, std0, edit0)

(***************************************************************************)
(* _getUserParameters(working_dir): the question, then the save dialog.    *)
(***************************************************************************)
EndsWith(s, suffix) ==
    /\ Len(s) >= Len(suffix)
    /\ SubSeq(s, Len(s) - Len(suffix) + 1, Len(s)) = suffix

\* Mutant: the suffix is appended whether or not a file was selected.
GetUserParameters_SuffixAlways ==
    [assembly_recursion |-> recursive,
     filename |-> IF dialog # NoFile /\ EndsWith(dialog, ".pdf") THEN dialog
                  ELSE IF dialog # NoFile THEN dialog \o ".pdf"
                  ELSE ".pdf",
     shown |-> <<"TECHBOOK">>]

GetUserParameters ==
    IF dialog # NoFile
    THEN [assembly_recursion |-> recursive,
          filename |-> IF EndsWith(dialog, ".pdf") THEN dialog
                       ELSE dialog \o ".pdf",
          shown |-> <<"TECHBOOK">>]
    ELSE [assembly_recursion |-> recursive,
          filename |-> NoFile,
          shown |-> <<"TECHBOOK", "Technical book generation aborted!">>]

(***************************************************************************)
(* Drawing pages: the template of a page, its scale, the date of its       *)
(* document.                                                               *)
(***************************************************************************)
\* page.Template.EditableTexts before the command runs.  Odd pages use a
\* template with the default field names, even pages one with fields of
\* its own and no date or scale field.
TemplateTexts(page) ==
    IF page[2] % 2 = 1
    THEN [k \in {"FC-DATE", "FC-SC", "FC-SH", "AUTHOR"} |-> PyStr("")]
    ELSE [k \in {"MY-SH", "AUTHOR"} |-> PyStr("")]

\* page.Scale, in tenths.
PageScale(page) == IF page[2] % 2 = 1 THEN 10 ELSE 5
\* str(page.Scale) of a float with one decimal.
ScaleStr(tenths) == ToString(tenths \div 10) \o "." \o ToString(tenths % 10)

\* doc.LastModifiedDate
LastModifiedDate(doc) ==
    IF doc = MasterFile THEN "2021-03-04T10:20:30Z"
    ELSE IF doc = PathJoin(ProjectDir, "B.FCStd") THEN "2021-12-25T08:00:00"
    ELSE "2020-02-29T23:59:59Z"

\* fromisoformat (after a final Z is cut), then strftime("%d/%m/%Y").
FormatModified(iso) ==
    LET d == IF SubSeq(iso, Len(iso), Len(iso)) = "Z"
             THEN SubSeq(iso, 1, Len(iso) - 1) ELSE iso
    IN  SubSeq(d, 9, 10) \o "/" \o SubSeq(d, 6, 7) \o "/" \o SubSeq(d, 1, 4)

\* "{} / {}".format(page_edited, nb_page)
SheetText(n, nb_page) == PyStr(ToString(n) \o " / " \o ToString(nb_page))

(***************************************************************************)
(* _computeEditableFields(doc, page, templates_data, date_field,           *)
(* scale_field): the EditableTexts assigned back to the page.              *)
(***************************************************************************)
RECURSIVE SetTexts(_, _, _)
SetTexts(templates_data, keys, texts_) ==
    IF keys = {} THEN texts_
    ELSE LET k == CHOOSE x \in keys : TRUE
         IN  SetTexts(templates_data, keys \ {k},
                      IF k \in DOMAIN texts_
                      THEN Put(texts_, k, templates_data[k]) ELSE texts_)

ComputeEditableFields(doc, page, templates_data, date_field, scale_field) ==
    LET texts0 == texts[page]
        texts1 == Put(texts0, date_field,
                      PyStr(FormatModified(LastModifiedDate(doc))))
        texts2 == Put(texts1, scale_field, PyStr(ScaleStr(PageScale(page))))
    IN  SetTexts(templates_data, DOMAIN templates_data, texts2)

\* _computeTechDraw: the number of pages of the book.
NbPage ==
    standard_fields["Stating_Page"].n + Len(doc_list)
        + standard_fields["Nb_Page_After"].n - 1

\* _computeTechDraw: templates_data for the page stamped with sheet number n.
TemplatesData(n) ==
    Put(editable_fields, standard_fields["Sheet_Field"].s, SheetText(n, NbPage))

(***************************************************************************)
(* Activated, up to the call of _createTechDrawDocumentList.               *)
(***************************************************************************)
\* A call of _createTechDrawDocumentList that has not run its first line.
CallFrame(file_name, file_path) ==
    [at |-> "enter", file_name |-> file_name, file_path |-> file_path,
     full_filename |-> "", obs |-> <<>>, i |-> 1, ret_val |-> <<>>]

\* No active document: a message, and nothing else.
Activated_NoDocument ==
    /\ pc = "idle"
    /\ ~activeDoc
    /\ messages' = Append(messages, "No active document found!")
    /\ pc' = "done"
    /\ UNCHANGED <<env, standard_fields, editable_fields, filename, walk, book>>

\* The save dialog was closed: _getUserParameters returns no file name.
Activated_NoFilename ==
    /\ pc = "idle"
    /\ activeDoc
    /\ GetUserParameters.filename = NoFile
    /\ messages' = messages \o GetUserParameters.shown
    /\ pc' = "done"
    /\ UNCHANGED <<env, standard_fields, editable_fields, filename, walk, book>>

\* Both answers given: the book parameters are read and the walk is called
\* on the master document with treated=[].
Activated_Start ==
    /\ pc = "idle"
    /\ activeDoc
    /\ GetUserParameters.filename # NoFile
    /\ messages' = messages \o GetUserParameters.shown
    /\ filename' = GetUserParameters.filename
    /\ LET r == GetBookParameters(sheet, EmptyDict, EmptyDict)
       IN  /\ standard_fields' = r.std
           /\ editable_fields' = r.edit
    /\ LET split == PathSplit(MasterFile)
       IN  stack' = <<CallFrame(split[2], split[1])>>
    /\ treated' = <<>>
    /\ pc' = "walk"
    /\ UNCHANGED <<env, doc_list, opened, printed, book>>

(***************************************************************************)
(* _createTechDrawDocumentList(file_name, file_path, treated, recursive).  *)
(* The top of 'stack' is the running call.                                 *)
(***************************************************************************)
Top == stack[Len(stack)]
SetTop(frame) == [stack EXCEPT ![Len(stack)] = frame]

\* Lines 193-198: the pages of the document itself, then its objects.
CreateList_Enter ==
    /\ pc = "walk"
    /\ Top.at = "enter"
    /\ LET full_filename == PathJoin(Top.file_path, Top.file_name)
           r == GetDocumentTechDraw(full_filename, treated)
       IN  /\ stack' = SetTop([Top EXCEPT !.at = "loop",
                                          !.full_filename = full_filename,
                                          !.obs = ReaderGetA2pObjects(full_filename),
                                          !.ret_val = r.ret])
           /\ treated' = r.treated
           /\ opened' = opened \cup r.opened
           /\ printed' = printed \o r.printed
    /\ UNCHANGED <<env, pc, standard_fields, editable_fields, filename,
                   doc_list, book, messages>>

\* The object the loop of the running call is at, and its source file.
Ob == Top.obs[Top.i]
NewFullFile == FindSourceFileInProject(Ob.src, Top.file_path)

\* Mutant: no object is walked.
Descends_Never(ob) == FALSE
\* Mutant: the answer of the user is not looked at.
Descends_Always(ob) == ob.sub

\* "if recursive and ob.isSubassembly()"
Descends(ob) == recursive /\ ob.sub

\* Line 205: the recursive call for a sub-assembly.
CreateList_Recurse ==
    /\ pc = "walk"
    /\ Top.at = "loop"
    /\ Top.i <= Len(Top.obs)
    /\ Descends(Ob)
    /\ Len(stack) < RecursionLimit
    /\ LET split == PathSplit(NewFullFile)
       IN  stack' = Append(stack, CallFrame(split[2], split[1]))
    /\ UNCHANGED <<env, pc, standard_fields, editable_fields, filename,
                   treated, doc_list, opened, printed, book, messages>>

\* Line 205 when the call stack is full: RecursionError, which nothing
\* catches; Activated ends there.
CreateList_RecursionError ==
    /\ pc = "walk"
    /\ Top.at = "loop"
    /\ Top.i <= Len(Top.obs)
    /\ Descends(Ob)
    /\ Len(stack) >= RecursionLimit
    /\ pc' = "RecursionError"
    /\ UNCHANGED <<env, standard_fields, editable_fields, filename, walk,
                   book, messages>>

\* Line 207: an object that is not walked contributes its own pages.
CreateList_Part ==
    /\ pc = "walk"
    /\ Top.at = "loop"
    /\ Top.i <= Len(Top.obs)
    /\ ~Descends(Ob)
    /\ LET r == GetDocumentTechDraw(NewFullFile, treated)
       IN  /\ stack' = SetTop([Top EXCEPT !.ret_val = @ \o r.ret,
                                          !.i = @ + 1])
           /\ treated' = r.treated
           /\ opened' = opened \cup r.opened
           /\ printed' = printed \o r.printed
    /\ UNCHANGED <<env, pc, standard_fields, editable_fields, filename,
                   doc_list, book, messages>>

\* Line 208: the call returns its list, to the call that made it (which
\* appends it to its own) or to Activated.
CreateList_Return ==
    /\ pc = "walk"
    /\ Top.at = "loop"
    /\ Top.i > Len(Top.obs)
    /\ IF Len(stack) > 1
       THEN LET caller == stack[Len(stack) - 1]
            IN  /\ stack' = [SubSeq(stack, 1, Len(stack) - 1)
                                EXCEPT ![Len(stack) - 1] =
                                    [caller EXCEPT !.ret_val = @ \o Top.ret_val,
                                                   !.i = @ + 1]]
                /\ UNCHANGED <<pc, doc_list>>
       ELSE /\ stack' = <<>>
            /\ doc_list' = Top.ret_val
            /\ pc' = "listed"
    /\ UNCHANGED <<env, standard_fields, editable_fields, filename, treated,
                   opened, printed, book, messages>>

(***************************************************************************)
(* _computeTechDraw(doc_list, standard_fields, editable_fields).           *)
(***************************************************************************)
\* Lines 246-252.
ComputeTechDraw_Begin ==
    /\ pc = "listed"
    /\ page_edited' = standard_fields["Stating_Page"].n
    /\ idx' = 1
    /\ pc' = "compute"
    /\ UNCHANGED <<env, standard_fields, editable_fields, filename, walk,
                   texts, temp_files, pdf_merger, output, messages>>

\* Mutant: the sheet number is not advanced.
NextPageEdited_Stuck(n) == n

\* page_edited += 1
NextPageEdited(n) == n + 1

\* One turn of the loop: the next page of doc_list is stamped.
ComputeTechDraw_Page ==
    /\ pc = "compute"
    /\ idx <= Len(doc_list)
    /\ LET page == doc_list[idx]
           doc == page[1]
       IN  texts' = [texts EXCEPT ![page] =
                        ComputeEditableFields(doc, page,
                            TemplatesData(page_edited),
                            standard_fields["Date_Field"].s,
                            standard_fields["Scale_Field"].s)]
    /\ page_edited' = NextPageEdited(page_edited)
    /\ idx' = idx + 1
    /\ UNCHANGED <<env, pc, standard_fields, editable_fields, filename, walk,
                   temp_files, pdf_merger, output, messages>>

\* The loop is over; Activated calls _createPDFFile (lines 266-267).
CreatePDFFile_Begin ==
    /\ pc = "compute"
    /\ idx > Len(doc_list)
    /\ idx' = 1
    /\ pdf_merger' = <<>>
    /\ pc' = "export"
    /\ UNCHANGED <<env, standard_fields, editable_fields, filename, walk,
                   texts, page_edited, temp_files, output, messages>>

(***************************************************************************)
(* _createPDFFile(base_doc, doc_list, filename).                           *)
(***************************************************************************)
\* base_doc.getTempFileName("Page{}".format(nb)) + ".pdf"
TempFileName(nb) == "Page" \o ToString(nb) \o ".pdf"

\* One turn of the loop: the page is exported as it is now and the file is
\* appended to the merger.
CreatePDFFile_Page ==
    /\ pc = "export"
    /\ idx <= Len(doc_list)
    /\ LET page == doc_list[idx]
           pdf_file == TempFileName(idx)
           exported == [page |-> page, texts |-> texts[page]]
       IN  /\ temp_files' = Put(temp_files, pdf_file, exported)
           /\ pdf_merger' = Append(pdf_merger, temp_files'[pdf_file])
    /\ idx' = idx + 1
    /\ UNCHANGED <<env, pc, standard_fields, editable_fields, filename, walk,
                   texts, page_edited, output, messages>>

\* Lines 275-276: the merged file is written.
CreatePDFFile_Write ==
    /\ pc = "export"
    /\ idx > Len(doc_list)
    /\ output' = [name |-> filename, pages |-> pdf_merger]
    /\ pc' = "written"
    /\ UNCHANGED <<env, standard_fields, editable_fields, filename, walk,
                   texts, page_edited, idx, temp_files, pdf_merger, messages>>

\* Lines 300-303.
Activated_Completed ==
    /\ pc = "written"
    /\ messages' = Append(messages, "TechBook completed")
    /\ pc' = "done"
    /\ UNCHANGED <<env, standard_fields, editable_fields, filename, walk, book>>

\* _getBookParameters called on two dictionaries that hold anything.
GetBookParameters_Call ==
    /\ pc = "idle"
    /\ LET r == GetBookParameters(sheet, standard_fields, editable_fields)
       IN  /\ standard_fields' = r.std
           /\ editable_fields' = r.edit
    /\ pc' = "returned"
    /\ UNCHANGED <<env, filename, walk, book, messages>>

(***************************************************************************)
(* Initial states.  Every specification starts a run of the command (or a  *)
(* call of _getBookParameters) in an environment drawn from a bounded set. *)
(***************************************************************************)
RECURSIVE SeqsOfLen(_, _)
SeqsOfLen(S, n) ==
    IF n = 0 THEN {<<>>}
    ELSE {Append(q, x) : q \in SeqsOfLen(S, n - 1), x \in S}
SeqsUpTo(S, n) == UNION {SeqsOfLen(S, k) : k \in 0..n}

\* The assignments of object lists to 'files' that hold at most 'budget'
\* objects in all.
RECURSIVE GraphsOver(_, _)
GraphsOver(files, budget) ==
    IF files = {} THEN {EmptyDict}
    ELSE LET f == CHOOSE x \in files : TRUE
         IN  UNION {{(f :> obs) @@ g : obs \in SeqsOfLen(A2pObject, k),
                                      g \in GraphsOver(files \ {f}, budget - k)}
                    : k \in 0..budget}

\* At most one file other than the master is missing; a missing file holds
\* no objects.
MissingSets == {{}} \cup {{f} : f \in Files \ {MasterFile}}
GraphsMissing(m) ==
    {g @@ [f \in m |-> <<>>] : g \in GraphsOver(Files \ m, MaxRefs)}

\* The TechDraw pages of every document before the command runs.
InitialTexts(pages) ==
    [p \in {q \in Files \X (1..MaxPages) : q[2] <= pages[q[1]]}
        |-> TemplateTexts(p)]

NoSheet == [found |-> FALSE, rows |-> <<>>]
Row(a, b) == [a |-> a, b |-> b]

InitRun ==
    /\ pc = "idle"
    /\ standard_fields = EmptyDict
    /\ editable_fields = EmptyDict
    /\ filename = NoFile
    /\ treated = <<>>
    /\ stack = <<>>
    /\ doc_list = <<>>
    /\ opened = {}
    /\ printed = <<>>
    /\ texts = InitialTexts(drawPages)
    /\ page_edited = 0
    /\ idx = 0
    /\ temp_files = EmptyDict
    /\ pdf_merger = <<>>
    /\ output = NoOutput
    /\ messages = <<>>

\* The walk: every reference graph within the bounds, in both modes.
InitWalk ==
    /\ activeDoc = TRUE
    /\ dialog = PathJoin(ProjectDir, "book.pdf")
    /\ recursive \in BOOLEAN
    /\ missing \in MissingSets
    /\ a2pObjects \in GraphsMissing(missing)
    /\ drawPages = [f \in Files |-> MaxPages]
    /\ sheet = NoSheet
    /\ InitRun

NextWalk ==
    \/ Activated_Start
    \/ CreateList_Enter
    \/ CreateList_Recurse
    \/ CreateList_RecursionError
    \/ CreateList_Part
    \/ CreateList_Return

SpecWalk == InitWalk /\ [][NextWalk]_vars

(***************************************************************************)
(* The whole command, on a few assemblies and every spreadsheet within the *)
(* bounds.                                                                 *)
(***************************************************************************)
FileB == PathJoin(ProjectDir, "B.FCStd")
FileC == PathJoin(ProjectDir, "C.FCStd")
Part(f) == [src |-> f, sub |-> FALSE]
Sub(f) == [src |-> f, sub |-> TRUE]
Assembly(a, b, c) == (MasterFile :> a) @@ (FileB :> b) @@ (FileC :> c)

\* (objects, answer to the recursion question, missing files)
BookAssemblies ==
    {<<Assembly(<<>>, <<>>, <<>>), FALSE, {}>>,
     <<Assembly(<<Part(FileB), Sub(FileC)>>, <<>>, <<Part(FileB)>>), TRUE, {}>>,
     <<Assembly(<<Part(FileB), Sub(FileC)>>, <<>>, <<>>), FALSE, {FileB}>>,
     <<Assembly(<<Sub(FileB)>>, <<Sub(MasterFile)>>, <<>>), TRUE, {}>>}

\* The rows a #TECHINFO# spreadsheet of the book is made of.
BookRows ==
    {Row(PyStr("Stating_Page"), PyInt(3)),
     Row(PyStr("Nb_Page_After"), PyInt(2)),
     Row(PyStr("Date_Field"), PyStr("MY-DATE")),
     Row(PyStr("Sheet_Field"), PyStr("MY-SH")),
     Row(PyStr("FC-DATE"), PyStr("01/01/1970")),
     Row(PyStr("FC-SC"), PyStr("1:1")),
     Row(PyStr("FC-SH"), PyStr("1 / 1")),
     Row(PyStr("AUTHOR"), PyStr("didier"))}

InitBook ==
    /\ activeDoc \in BOOLEAN
    /\ dialog \in {NoFile, PathJoin(ProjectDir, "book"),
                   PathJoin(ProjectDir, "book.pdf")}
    /\ \E a \in BookAssemblies :
          /\ a2pObjects = a[1]
          /\ recursive = a[2]
          /\ missing = a[3]
    /\ drawPages \in {[f \in Files |-> n] : n \in 0..MaxPages}
    /\ sheet \in {NoSheet} \cup
                 {[found |-> TRUE, rows |-> r] : r \in SeqsUpTo(BookRows, MaxRows)}
    /\ InitRun

Next ==
    \/ Activated_NoDocument
    \/ Activated_NoFilename
    \/ Activated_Start
    \/ CreateList_Enter
    \/ CreateList_Recurse
    \/ CreateList_RecursionError
    \/ CreateList_Part
    \/ CreateList_Return
    \/ ComputeTechDraw_Begin
    \/ ComputeTechDraw_Page
    \/ CreatePDFFile_Begin
    \/ CreatePDFFile_Page
    \/ CreatePDFFile_Write
    \/ Activated_Completed

Spec == InitBook /\ [][Next]_vars

(***************************************************************************)
(* _getBookParameters alone, on every spreadsheet within the bounds and on *)
(* dictionaries that are not empty.                                        *)
(***************************************************************************)
ParamKeys == STANDARDS_FIELDS_NAME \cup {"FC-DATE", "AUTHOR"}
ParamValues == {PyInt(3), PyStr("12"), PyStr("MY-F")}
ParamRows ==
    {Row(PyStr(k), v) : k \in ParamKeys, v \in ParamValues}
        \cup {Row(EmptyCell, PyInt(3)), Row(PyStr("AUTHOR"), EmptyCell)}

PriorDicts ==
    {EmptyDict,
     [k \in {"Stating_Page", "OLD"} |-> PyStr("old")],
     [k \in STANDARDS_FIELDS_NAME \cup {"AUTHOR"} |-> PyInt(9)]}

InitParams ==
    /\ activeDoc = TRUE
    /\ dialog = NoFile
    /\ recursive = FALSE
    /\ missing = {}
    /\ a2pObjects = Assembly(<<>>, <<>>, <<>>)
    /\ drawPages = [f \in Files |-> 0]
    /\ sheet \in {NoSheet} \cup
                 {[found |-> TRUE, rows |-> r] : r \in SeqsUpTo(ParamRows, MaxRows)}
    /\ pc = "idle"
    /\ standard_fields \in PriorDicts
    /\ editable_fields \in PriorDicts
    /\ filename = NoFile
    /\ treated = <<>>
    /\ stack = <<>>
    /\ doc_list = <<>>
    /\ opened = {}
    /\ printed = <<>>
    /\ texts = InitialTexts(drawPages)
    /\ page_edited = 0
    /\ idx = 0
    /\ temp_files = EmptyDict
    /\ pdf_merger = <<>>
    /\ output = NoOutput
    /\ messages = <<>>

NextParams == GetBookParameters_Call

SpecParams == InitParams /\ [][NextParams]_vars

(***************************************************************************)
(* Properties.                                                             *)
(***************************************************************************)
\* The objects of a file, as a set, and the reference graph.
Objects(f) == {a2pObjects[f][i] : i \in 1..Len(a2pObjects[f])}
Targets(S) == {ob.src : ob \in UNION {Objects(f) : f \in S}}
SubTargets(S) ==
    {ob.src : ob \in {o \in UNION {Objects(f) : f \in S} : o.sub}}

RECURSIVE ReachAll(_)
ReachAll(S) == IF Targets(S) \subseteq S THEN S ELSE ReachAll(S \cup Targets(S))
\* No document imports itself, directly or through other documents.
Acyclic == \A f \in Files : f \notin ReachAll(Targets({f}))

\* The documents whose objects a recursive walk has to go through: the
\* master and what is imported as a sub-assembly by one of them.
RECURSIVE WalkedFrom(_)
WalkedFrom(S) ==
    IF SubTargets(S) \subseteq S THEN S ELSE WalkedFrom(S \cup SubTargets(S))
Walked == WalkedFrom({MasterFile})
\* The documents a recursive walk has to collect pages of.
Reachable == {MasterFile} \cup Targets(Walked)
\* The master and the documents it imports itself.
Direct == {MasterFile} \cup Targets({MasterFile})

PagesOf(f) == {<<f, i>> : i \in 1..drawPages[f]}
NoRepeat(list) ==
    \A i, j \in 1..Len(list) : i # j => list[i] # list[j]

\* What the running calls have collected so far, in the order of the final
\* list, followed by the returned list.
RECURSIVE Flatten(_, _)
Flatten(frames, n) ==
    IF n = 0 THEN <<>> ELSE Flatten(frames, n - 1) \o frames[n].ret_val
Collected == Flatten(stack, Len(stack)) \o doc_list

(* C1: started on the master document with recursive=True, the walk
   terminates and returns a list, for every graph of references, cyclic
   ones included: it never ends in a RecursionError. *)
C1_WalkReturnsAList == recursive => pc # "RecursionError"

(* C2: every (document, page) pair occurs at most once in the list the walk
   builds and returns, in both modes, and a document is appended to
   'treated' at most once; the pages in the list are those of the treated
   documents, each collected on the visit that appended the document. *)
C2_NoDuplicates ==
    /\ NoRepeat(treated)
    /\ NoRepeat(Collected)
    /\ \A k \in 1..Len(Collected) : InList(Collected[k][1], treated)

C2_Witness ==
    /\ pc = "listed"
    /\ \E i, j \in 1..Len(a2pObjects[MasterFile]) :
          /\ i # j
          /\ a2pObjects[MasterFile][i].src = a2pObjects[MasterFile][j].src
          /\ a2pObjects[MasterFile][i].src \notin missing
          /\ InList(<<a2pObjects[MasterFile][i].src, 1>>, doc_list)

(* C3: in recursive mode, when every file can be opened and the reference
   graph is acyclic, the returned list holds every page of the master and
   of every document imported by the master or by a document reached
   through sub-assembly imports. *)
C3_RecursiveCollectsAll ==
    (pc = "listed" /\ recursive /\ missing = {} /\ Acyclic)
        => \A f \in Reachable : \A p \in PagesOf(f) : InList(p, doc_list)

\* B is imported as a plain part first and as a sub-assembly next; C is
\* imported by B only.
C3_Witness ==
    /\ pc = "listed" /\ recursive /\ missing = {} /\ Acyclic
    /\ a2pObjects[MasterFile] = <<Part(FileB), Sub(FileB)>>
    /\ a2pObjects[FileB] = <<Part(FileC)>>
    /\ InList(<<FileC, MaxPages>>, doc_list)

(* C4: in non-recursive mode the walk never descends: every collected page
   belongs to the master or to a document the master imports itself, and
   no other document is opened. *)
C4_NonRecursiveStaysDirect ==
    ~recursive =>
        /\ Len(stack) <= 1
        /\ \A k \in 1..Len(Collected) : Collected[k][1] \in Direct
        /\ opened \subseteq Direct

\* B is a sub-assembly of the master and imports C, which the master does
\* not import.
C4_Witness ==
    /\ ~recursive /\ pc = "listed" /\ missing = {}
    /\ Sub(FileB) \in Objects(MasterFile)
    /\ FileC \in Targets({FileB}) /\ FileC \notin Direct
    /\ InList(<<FileB, 1>>, doc_list)
    /\ FileC \notin opened

(* C7: a file that cannot be opened is reported and skipped: it never
   enters 'treated', the walk goes on to the end and the returned list holds
   the pages of all the other documents the walk has to collect, in both
   modes. *)
C7_MissingFileSkipped ==
    printed # <<>> =>
        /\ \A f \in missing : ~InList(f, treated)
        /\ pc # "RecursionError"
        /\ pc = "listed" =>
              \A f \in (IF recursive THEN Reachable ELSE Direct) \ missing :
                  \A p \in PagesOf(f) : InList(p, doc_list)

\* The part of C7 that does not depend on the walk returning: what holds of
\* every run in which the walk does return.
MissingFileSkippedWhenListed ==
    (printed # <<>> /\ pc = "listed") =>
        /\ \A f \in missing : ~InList(f, treated)
        /\ \A f \in (IF recursive THEN Reachable ELSE Direct) \ missing :
              \A p \in PagesOf(f) : InList(p, doc_list)

\* The pages have all been stamped.
Stamped ==
    \/ pc \in {"export", "written"}
    \/ pc = "done" /\ output.name # NoFile

\* The text of the sheet field of the k-th page of the list.
ExpectedSheet(k) ==
    LET first == standard_fields["Stating_Page"].n
        total == first + Len(doc_list) + standard_fields["Nb_Page_After"].n - 1
    IN  PyStr(ToString(first + k - 1) \o " / " \o ToString(total))

SheetField == standard_fields["Sheet_Field"].s

(* C5: after _computeTechDraw, whatever the spreadsheet holds, the date
   field of every page of the list holds the last-modified date of its
   document as dd/mm/YYYY, its scale field the scale of the page, and its
   sheet field the computed "n / total". *)
C5_FieldsCalculated ==
    Stamped =>
        \A k \in 1..Len(doc_list) :
            LET page == doc_list[k]
                t == texts[page]
                date == IF page[1] = MasterFile THEN "04/03/2021"
                        ELSE IF page[1] = FileB THEN "25/12/2021"
                        ELSE "29/02/2020"
                scale == IF page[2] % 2 = 1 THEN "1.0" ELSE "0.5"
            IN  /\ t[standard_fields["Date_Field"].s] = PyStr(date)
                /\ t[standard_fields["Scale_Field"].s] = PyStr(scale)
                /\ SheetField \in DOMAIN t => t[SheetField] = ExpectedSheet(k)

\* What holds of the date and scale fields on every spreadsheet: they are
\* calculated unless a row of the spreadsheet is keyed by their name.
FieldsCalculatedUnlessKeyed ==
    Stamped =>
        \A k \in 1..Len(doc_list) :
            LET page == doc_list[k]
                t == texts[page]
                date_field == standard_fields["Date_Field"].s
                scale_field == standard_fields["Scale_Field"].s
            IN  /\ date_field \notin DOMAIN editable_fields
                      => t[date_field] =
                             PyStr(FormatModified(LastModifiedDate(page[1])))
                /\ scale_field \notin DOMAIN editable_fields
                      => t[scale_field] = PyStr(ScaleStr(PageScale(page)))
                /\ date_field \in DOMAIN editable_fields
                      => t[date_field] = editable_fields[date_field]


(* C6: the k-th page appended to the merged PDF is the k-th page of the
   list and carries, where its template has the sheet field, the sheet
   number Stating_Page + k - 1; nothing is exported before every page of
   the list is stamped; the written file holds the N pages in that order. *)
C6_Pagination ==
    /\ ~Stamped => (pdf_merger = <<>> /\ temp_files = EmptyDict)
    /\ Stamped =>
          \A k \in 1..Len(doc_list) :
              SheetField \in DOMAIN texts[doc_list[k]]
                  => texts[doc_list[k]][SheetField] = ExpectedSheet(k)
    /\ \A k \in 1..Len(pdf_merger) :
          /\ pdf_merger[k].page = doc_list[k]
          /\ SheetField \in DOMAIN pdf_merger[k].texts
                => pdf_merger[k].texts[SheetField] = ExpectedSheet(k)
    /\ output.name # NoFile =>
          (output.pages = pdf_merger /\ Len(output.pages) = Len(doc_list))

\* A book of three pages that starts at sheet 3.
C6_Witness ==
    /\ pc = "done"
    /\ Len(output.pages) = 3
    /\ standard_fields["Stating_Page"] = PyInt(3)
    /\ \A k \in 1..3 : SheetField \in DOMAIN output.pages[k].texts
    /\ output.pages[3].texts[SheetField] = PyStr("5 / 5")

\* The rows _getBookParameters reads: those above the first empty cell.
RowsRead ==
    CHOOSE n \in 0..Len(sheet.rows) :
        /\ \A i \in 1..n : sheet.rows[i].a # EmptyCell /\ sheet.rows[i].b # EmptyCell
        /\ \/ n = Len(sheet.rows)
           \/ sheet.rows[n + 1].a = EmptyCell
           \/ sheet.rows[n + 1].b = EmptyCell
DefinedKeys == {sheet.rows[i].a.s : i \in 1..RowsRead}
\* The value of the last row read that defines k.
RowValue(k) ==
    LET last == CHOOSE i \in 1..RowsRead :
                    /\ sheet.rows[i].a.s = k
                    /\ \A j \in (i + 1)..RowsRead : sheet.rows[j].a.s # k
    IN  sheet.rows[last].b
ExpectedStandard(k) ==
    LET default == CASE k = "Stating_Page" -> PyInt(1)
                     [] k = "Nb_Page_After" -> PyInt(0)
                     [] k = "Date_Field" -> PyStr("FC-DATE")
                     [] k = "Scale_Field" -> PyStr("FC-SC")
                     [] k = "Sheet_Field" -> PyStr("FC-SH")
    IN  IF k \notin DefinedKeys THEN default
        ELSE IF k \in {"Stating_Page", "Nb_Page_After"}
        THEN CASE RowValue(k) = PyInt(3) -> PyInt(3)
               [] RowValue(k) = PyStr("12") -> PyInt(12)
               [] OTHER -> default
        ELSE RowValue(k)

(* C8: after _getBookParameters, whatever the two dictionaries held,
   standard_fields has exactly the five standard keys, each with the value
   of the spreadsheet row that defines it (as an integer for Stating_Page
   and Nb_Page_After, the default when it is not convertible) or else its
   default, and editable_fields holds exactly the other rows. *)
C8_Partition ==
    pc = "returned" =>
        /\ DOMAIN standard_fields = STANDARDS_FIELDS_NAME
        /\ \A k \in STANDARDS_FIELDS_NAME :
              standard_fields[k] = ExpectedStandard(k)
        /\ DOMAIN editable_fields = DefinedKeys \ STANDARDS_FIELDS_NAME
        /\ \A k \in DOMAIN editable_fields : editable_fields[k] = RowValue(k)

C8_Witness ==
    /\ pc = "returned"
    /\ sheet.found
    /\ sheet.rows = <<Row(PyStr("Stating_Page"), PyStr("MY-F")),
                      Row(PyStr("AUTHOR"), PyStr("12"))>>
    /\ standard_fields["Stating_Page"] = PyInt(1)
    /\ editable_fields = [k \in {"AUTHOR"} |-> PyStr("12")]

(* C9: without an active document, or with the save dialog closed, the
   command ends without opening a document, changing an editable text,
   exporting a page or writing the file, and "TechBook completed" is not
   shown; and "TechBook completed" is shown only once the merged PDF is
   written. *)
C9_AbortHasNoEffect ==
    /\ (~activeDoc \/ dialog = NoFile) =>
          /\ pc \in {"idle", "done"}
          /\ opened = {}
          /\ texts = InitialTexts(drawPages)
          /\ temp_files = EmptyDict
          /\ pdf_merger = <<>>
          /\ output = NoOutput
          /\ ~InList("TechBook completed", messages)
    /\ InList("TechBook completed", messages) =>
          /\ filename # NoFile
          /\ output = [name |-> filename, pages |-> pdf_merger]

\* The dialog was closed on an assembly that has pages and imports.
C9_Witness ==
    /\ pc = "done"
    /\ activeDoc /\ dialog = NoFile
    /\ Len(a2pObjects[MasterFile]) > 0
    /\ drawPages[MasterFile] > 0
    /\ InList("Technical book generation aborted!", messages)

============================================================================
